---- MODULE Spec2Model ----
(***************************************************************************)
(* Delivery pipeline of the news bot (src/main.py): the title store, the   *)
(* status ledger, send_article with its three post attempts, the retry     *)
(* queue with its startup replay and its drain, and the polling cycle.     *)
(*                                                                         *)
(* Texts are sequences of one-character tokens: "a" and "b" are Latin      *)
(* letters, "C" is a CJK ideograph (U+4E00..U+9FFF), " " is a blank, "\n"  *)
(* is the line terminator, "(" and ")" are the full-width parentheses of   *)
(* the failure marker.  Python dicts are functions from key strings.       *)
(* Sleeps, log lines and timestamps are not modelled.                      *)
(*                                                                         *)
(* Spec: the files can be written.  SpecIO: an append to the ledger file   *)
(* may raise.  SpecMain: one run of main_loop from process start, with     *)
(* write failures of both files, a torn ledger at startup and              *)
(* KeyboardInterrupt.  SpecStore: the title store by itself.  SpecQueue:   *)
(* one process on an empty ledger, with feeds longer than the fetch limit  *)
(* and posts enough for every item of a fetch to fail.                     *)
(* A step is one loop iteration; the process may also end inside one,      *)
(* after any of the events of the iteration (InterruptedStep): Restart     *)
(* then starts the next process from the files.                            *)
(***************************************************************************)
EXTENDS Integers, Sequences, FiniteSets, TLC

\* ---------------------------------------------------------------- bounds
MaxFeedLen == 2
NumCountries == 2
MaxPosts == 6
MaxStoreLen == 8
MaxStops == 1
QueueFeedLen == 6
QueuePosts == 18

\* ------------------------------------------------------ program constants
SendAttempts == 3
TranslateRetry == 3
FeedLimit == 5
RetryBatch == 5
MaxRetryCount == 3
ChineseWindow == 10
ResponseLimit == 200

RSS_SOURCES == <<"KH", "SG", "TH", "VN", "MM", "LA">>

Unknown == <<"?">>

\* ------------------------------------------------------------ text helpers
Min(a, b) == IF a < b THEN a ELSE b

Whitespace == {" ", "\n"}

Prefix(s, n) == SubSeq(s, 1, Min(n, Len(s)))

RECURSIVE LStrip(_)
LStrip(s) ==
    IF s # <<>> /\ Head(s) \in Whitespace THEN LStrip(Tail(s)) ELSE s

RECURSIVE RStrip(_)
RStrip(s) ==
    IF s # <<>> /\ s[Len(s)] \in Whitespace
    THEN RStrip(SubSeq(s, 1, Len(s) - 1))
    ELSE s

Strip(s) == RStrip(LStrip(s))

\* the lines of a text file, as iterating the file object yields them
\* (without the terminator, which strip() would remove anyway)
RECURSIVE Lines(_, _)
Lines(chars, cur) ==
    IF chars = <<>>
    THEN IF cur = <<>> THEN <<>> ELSE <<cur>>
    ELSE IF Head(chars) = "\n"
         THEN <<cur>> \o Lines(Tail(chars), <<>>)
         ELSE Lines(Tail(chars), Append(cur, Head(chars)))

\* ------------------------------------------------------------ dict helpers
Has(d, k) == k \in DOMAIN d

Get(d, k, default) == IF Has(d, k) THEN d[k] ELSE default

SetDefault(d, k, v) == IF Has(d, k) THEN d ELSE d @@ (k :> v)

Put(d, k, v) == (k :> v) @@ d

\* ------------------------------------------------------------ ArticleStore
RECURSIVE LoadTitles(_)
LoadTitles(lines) ==
    IF lines = <<>> THEN {}
    ELSE {Strip(Head(lines))} \cup LoadTitles(Tail(lines))

ArticleStore_load(file) == LoadTitles(Lines(file, <<>>))

\* add_record: returns the new [titles, file] and whether it raised.
\* writeOk: whether the append to the title file goes through (it raises
\* OSError otherwise, after the title was added to the set).
add_record(titles, file, title, writeOk) ==
    IF title \notin titles
    THEN IF writeOk
         THEN [titles |-> titles \cup {title},
               file |-> file \o title \o <<"\n">>, raised |-> FALSE]
         ELSE [titles |-> titles \cup {title}, file |-> file, raised |-> TRUE]
    ELSE [titles |-> titles, file |-> file, raised |-> FALSE]

\* ------------------------------------------------------------- translation
CJK == {"C"}

FailureMarker == <<"(", "C", "C", "C", "C", ")">>

\* mutation: the whole text is scanned
is_chinese_whole(text) == \E i \in 1..Len(text) : text[i] \in CJK

is_chinese(text) ==
    \E i \in 1..Min(ChineseWindow, Len(text)) : text[i] \in CJK

\* replies[i] is the provider's answer to the i-th call of this invocation:
\* [ok |-> FALSE] (it raised) or [ok |-> TRUE, text |-> t]
RECURSIVE TranslateLoop(_, _, _)
TranslateLoop(text, replies, attempt) ==
    IF attempt >= TranslateRetry
    THEN [text |-> text \o FailureMarker, calls |-> attempt]
    ELSE IF replies[attempt + 1].ok
         THEN [text |-> replies[attempt + 1].text, calls |-> attempt + 1]
         ELSE TranslateLoop(text, replies, attempt + 1)

translate_text(text, replies) ==
    IF is_chinese(text)
    THEN [text |-> text, calls |-> 0]
    ELSE TranslateLoop(text, replies, 0)

\* --------------------------------------------------------------- RSS fetch
\* feed: [ok |-> parse succeeded, entries |-> sequence of entry dicts]
RECURSIVE MapEntries(_)
MapEntries(entries) ==
    IF entries = <<>> THEN <<>>
    ELSE <<[title     |-> Strip(Head(entries).title),
            link      |-> Strip(Head(entries).link),
            published |-> Get(Head(entries), "published", Unknown)]>>
         \o MapEntries(Tail(entries))

\* mutation: the feed is not cut at 5 entries
fetch_rss_articles_nolimit(feed) ==
    IF feed.ok
       /\ \A i \in 1..Len(feed.entries) :
             Has(feed.entries[i], "title") /\ Has(feed.entries[i], "link")
    THEN MapEntries(feed.entries)
    ELSE <<>>

fetch_rss_articles(feed) ==
    IF feed.ok
       /\ \A i \in 1..Min(FeedLimit, Len(feed.entries)) :
             Has(feed.entries[i], "title") /\ Has(feed.entries[i], "link")
    THEN MapEntries(Prefix(feed.entries, FeedLimit))
    ELSE <<>>

\* ------------------------------------------------------------------ events
\* What one step did, in program order: "call"/"ret"/"raise" delimit a
\* send_article call, "post" is one channel post, "log" one ledger append,
\* "enqueue" one retry_queue.append, "alert" one admin notification,
\* "record" one add_record (ok: it completed; otherwise the append to the
\* title file raised), "skip" an article found in posted_titles,
\* "examine"/"drop" the drain looking at / discarding a queued article,
\* "iofail" an append to the ledger file that raised, "tcall" one call of
\* the translation provider.
TitleOf(a) == Get(a, "title", Get(a, "original_title", <<>>))

Ev(kind, a, ok) ==
    [ev |-> kind, title |-> TitleOf(a), ok |-> ok,
     rc |-> Get(a, "retry_count", 0)]

\* ----------------------------------------------------------- NewsSystem
\* S is the part of the system a call can change:
\* [log |-> status ledger, queue |-> retry_queue, ev |-> events so far]

\* mutation: an alert that fails is sent again
_notify_admin_retry(S, article, alertOk) ==
    [S EXCEPT !.ev = IF alertOk
                     THEN Append(@, Ev("alert", article, TRUE))
                     ELSE @ \o <<Ev("alert", article, FALSE),
                                 Ev("alert", article, TRUE)>>]

\* alertOk: whether the post to the admin chat goes through; an exception
\* of that post is caught and logged here
_notify_admin(S, article, alertOk) ==
    [S EXCEPT !.ev = Append(@, Ev("alert", article, alertOk))]

\* mutation: the entry does not carry the article's retry_count
LogEntry_noretries(article, state, response) ==
    [country          |-> Get(article, "country", Unknown),
     original_title   |-> article.title,
     translated_title |-> Get(article, "translated", <<>>),
     state            |-> state,
     retries          |-> 0,
     response         |-> Prefix(response, ResponseLimit)]

LogEntry(article, state, response) ==
    [country          |-> Get(article, "country", Unknown),
     original_title   |-> article.title,
     translated_title |-> Get(article, "translated", <<>>),
     state            |-> state,
     retries          |-> Get(article, "retry_count", 0),
     response         |-> Prefix(response, ResponseLimit)]

\* writeOk: whether the append to the ledger file goes through (it raises
\* OSError otherwise); alertOk: the outcome of the admin alert, if one is
\* sent.  Returns [S, art, raised]
_log_status(S, article, state, response, writeOk, alertOk) ==
    LET a  == SetDefault(article, "retry_count", 0)
        S1 == [S EXCEPT !.log = Append(@, LogEntry(a, state, response)),
                        !.ev  = Append(@, Ev("log", a, state = "success"))]
    IN  IF ~writeOk
        THEN [S |-> [S EXCEPT !.ev = Append(@, Ev("iofail", a, FALSE))],
              art |-> a, raised |-> TRUE]
        ELSE IF state = "failed"
        THEN [S   |-> _notify_admin(
                        [S1 EXCEPT !.queue = Append(@, a),
                                   !.ev    = Append(@, Ev("enqueue", a, FALSE))],
                        a, alertOk),
              art |-> a, raised |-> FALSE]
        ELSE [S |-> S1, art |-> a, raised |-> FALSE]

\* mutation: a failed attempt does not count
IncRetry_none(article) == article

IncRetry(article) == [article EXCEPT !["retry_count"] = @ + 1]

\* out.alert: whether the admin alert of the call, if any, goes through;
\* out.posts[i]: whether the channel accepts the i-th post of the call;
\* out.writes[i]: whether the ledger append of the i-th attempt goes through
\* (i = SendAttempts + 1: the append of the "failed" entry after the loop).
\* An append that raises inside the loop is caught by the loop's except
\* clause like a failed post; after the loop it leaves send_article.
RECURSIVE SendLoop(_, _, _, _)
SendLoop(S, article, attempt, out) ==
    IF attempt >= SendAttempts
    THEN LET r == _log_status(S, SetDefault(article, "retry_count", 0),
                              "failed", <<>>, out.writes[SendAttempts + 1],
                              out.alert)
         IN  IF r.raised
             THEN [S |-> [r.S EXCEPT !.ev = Append(@, Ev("raise", r.art, FALSE))],
                   art |-> r.art, ok |-> FALSE, raised |-> TRUE]
             ELSE [S |-> [r.S EXCEPT !.ev = Append(@, Ev("ret", r.art, FALSE))],
                   art |-> r.art, ok |-> FALSE, raised |-> FALSE]
    ELSE LET posted == [S EXCEPT !.ev =
                          Append(@, Ev("post", article, out.posts[attempt + 1]))]
         IN  IF out.posts[attempt + 1]
             THEN LET r == _log_status(posted, article, "success",
                                       <<"o", "k">>, out.writes[attempt + 1],
                                       out.alert)
                  IN  IF r.raised
                      THEN SendLoop(r.S, IncRetry(r.art), attempt + 1, out)
                      ELSE [S |-> [r.S EXCEPT !.ev =
                                      Append(@, Ev("ret", r.art, TRUE))],
                            art |-> r.art, ok |-> TRUE, raised |-> FALSE]
             ELSE SendLoop(posted, IncRetry(article), attempt + 1, out)

\* returns [S, art (the article as the call leaves it), ok, raised]
send_article(S, article, country, out) ==
    LET a1 == SetDefault(article, "retry_count", 0)
        S1 == [S EXCEPT !.ev = Append(@, Ev("call", a1, FALSE))]
        Raise(a) == [S |-> [S1 EXCEPT !.ev = Append(@, Ev("raise", a, FALSE))],
                     art |-> a, ok |-> FALSE, raised |-> TRUE]
    IN  IF ~Has(a1, "title")
        THEN Raise(a1)
        ELSE LET a2 == SetDefault(a1, "translated", a1.title)
             IN  IF ~Has(a2, "link")
                 THEN Raise(a2)
                 ELSE SendLoop(S1, a2, 0, out)

\* A line of the ledger file is the dict json.loads makes of it, or Torn:
\* text that is not a JSON document (a line cut short by a crash or a full
\* disk), for which json.loads raises.
Torn == [raw |-> <<"{">>]

\* json.loads(line) or record["state"] raises on some line of the file;
\* _load_retry_queue catches FileNotFoundError only
LoadRaises(log) == \E i \in DOMAIN log : ~Has(log[i], "state")

\* mutation: a "failed" entry is left out when the ledger holds a later
\* "success" entry for the same title
RECURSIVE _load_retry_queue_latest(_)
_load_retry_queue_latest(log) ==
    IF log = <<>> THEN <<>>
    ELSE IF ~Has(Head(log), "state") THEN <<>>
    ELSE (IF /\ Head(log).state = "failed"
             /\ ~\E k \in 2..Len(log) :
                    /\ Get(log[k], "state", "") = "success"
                    /\ log[k].original_title = Head(log).original_title
          THEN <<Head(log)>> ELSE <<>>)
         \o _load_retry_queue_latest(Tail(log))

\* returns the retry queue rebuilt from the ledger (json.loads of each line
\* gives back the entry's keys and values), up to the first line that
\* raises
RECURSIVE _load_retry_queue(_)
_load_retry_queue(log) ==
    IF log = <<>> THEN <<>>
    ELSE IF ~Has(Head(log), "state") THEN <<>>
    ELSE (IF Head(log).state = "failed" THEN <<Head(log)>> ELSE <<>>)
         \o _load_retry_queue(Tail(log))

\* list.remove(x): drops the first element equal to x
RECURSIVE RemoveFirst(_, _)
RemoveFirst(q, x) ==
    IF q = <<>> THEN <<>>
    ELSE IF Head(q) = x THEN Tail(q)
         ELSE <<Head(q)>> \o RemoveFirst(Tail(q), x)

\* mutation: the drain iterates over the whole queue
TakeBatch_all(queue) == queue

TakeBatch(queue) == Prefix(queue, RetryBatch)

\* mutation: off-by-one threshold
Exhausted_above(article) == article.retry_count > MaxRetryCount

Exhausted(article) == article.retry_count >= MaxRetryCount

AlreadyPosted(title, titles) == title \in titles

\* mutation: the callers record the title whatever send_article returned
SendSucceeded_always(r) == TRUE

\* the truth value of send_article's result, as the callers test it
SendSucceeded(r) == r.ok

ReplaceAt(q, i, x) == [j \in 1..Len(q) |-> IF j = i THEN x ELSE q[j]]

\* ------------------------------------------------------------ environment
\* a Latin headline whose first CJK ideograph comes right after the window
\* is_chinese looks at
LatinTitle ==
    [i \in 1..(ChineseWindow + 1) |-> IF i <= ChineseWindow THEN "a" ELSE "C"]

RawEntries ==
    { [title |-> LatinTitle \o <<" ">>, link |-> <<"u">>,
       published |-> <<"p">>],
      [title |-> <<"C">>, link |-> <<"u", " ">>] }

Titles == {Strip(e.title) : e \in RawEntries}

SeqsUpTo(S, n) == UNION {[1..k -> S] : k \in 0..n}

Feeds ==
    {[ok |-> TRUE, entries |-> es] : es \in SeqsUpTo(RawEntries, MaxFeedLen)}
    \cup {[ok |-> FALSE, entries |-> <<>>]}

\* k failures, then (for k below the number of attempts) one success; what
\* comes after the first success is never asked for
FailThenOk(k, n, fail, ok) ==
    [i \in 1..Min(k + 1, n) |-> IF i <= k THEN fail ELSE ok]

WritesOk == [i \in 1..(SendAttempts + 1) |-> TRUE]

\* the files can be written (store: the append to the title file): the post
\* is accepted at once, accepted at the last attempt, or never accepted, and
\* then the admin alert goes through or fails
Outcomes ==
    {[posts |-> FailThenOk(k, SendAttempts, FALSE, TRUE), writes |-> WritesOk,
      store |-> TRUE, alert |-> TRUE] :
        k \in {0, SendAttempts - 1, SendAttempts}}
    \cup {[posts |-> FailThenOk(SendAttempts, SendAttempts, FALSE, TRUE),
           writes |-> WritesOk, store |-> TRUE, alert |-> FALSE]}

\* an append to the ledger file raises: after the first accepted post only,
\* after every accepted post and after the loop, after the loop of a call
\* whose posts all failed
FaultOutcomes ==
    {[posts  |-> <<TRUE, TRUE>>,
      writes |-> [i \in 1..(SendAttempts + 1) |-> i # 1],
      store  |-> TRUE, alert |-> TRUE],
     [posts  |-> [i \in 1..SendAttempts |-> TRUE],
      writes |-> [i \in 1..(SendAttempts + 1) |-> FALSE],
      store  |-> TRUE, alert |-> TRUE],
     [posts  |-> [i \in 1..SendAttempts |-> FALSE],
      writes |-> [i \in 1..(SendAttempts + 1) |-> i <= SendAttempts],
      store  |-> TRUE, alert |-> TRUE]}

\* the append to the title file raises after an accepted post
StoreFaultOutcomes ==
    {[posts |-> <<TRUE>>, writes |-> WritesOk, store |-> FALSE,
      alert |-> TRUE]}

ProviderText == <<"C", "C">>

\* the provider answers at once, at the last call, or never
ProviderReplies ==
    {FailThenOk(k, TranslateRetry, [ok |-> FALSE],
                [ok |-> TRUE, text |-> ProviderText]) :
        k \in {0, TranslateRetry - 1, TranslateRetry}}

\* the provider calls of one translate_text, as events
TranslateEvents(art, replies, calls) ==
    [i \in 1..calls |->
        [ev |-> "tcall", title |-> art.title, ok |-> replies[i].ok, rc |-> 0]]

\* what the provider is asked: nothing when translate_text skips the call
RepliesFor(text) == IF is_chinese(text) THEN {<<>>} ELSE ProviderReplies

\* The ledger file found at the first start: absent or empty, or left by
\* earlier runs in which one more send than a drain takes has failed.
FailedEarlier ==
    LogEntry([title |-> LatinTitle, link |-> <<"u">>, published |-> <<"p">>,
              translated |-> ProviderText, country |-> RSS_SOURCES[1],
              retry_count |-> SendAttempts],
             "failed", <<>>)

InitialLedgers == {<<>>, [i \in 1..(RetryBatch + 1) |-> FailedEarlier]}

\* a ledger file whose last line was cut short
TornLedgers == {<<FailedEarlier, Torn>>}

\* ------------------------------------------------------------------- state
VARIABLES
    store_file,      \* posted_titles.txt, as characters
    posted_titles,   \* ArticleStore.posted_titles
    status_log,      \* send_status.log, as the sequence of its entries
    retry_queue,     \* NewsSystem.retry_queue
    pc,              \* "fetch", "country" (drain, then article loop), "sleep";
                     \* "crashed": an exception has left main_loop,
                     \* "stopped": main_loop has ended on KeyboardInterrupt
    country,         \* index into RSS_SOURCES of the country being processed
    articles,        \* fetched articles the article loop has not reached yet
    batch,           \* retry_queue[:5] elements the drain has not reached yet
    kept,            \* examined elements of this drain that stay queued
    examined,        \* elements the drain in progress has examined
    events,          \* what the last step did
    posts,           \* history: channel post attempts per title
    delivered,       \* history: accepted channel posts per title
    retried,         \* history: titles the drain has posted
    drains,          \* history: process_retries invocations of this cycle
    drained,         \* history: articles examined by the drains of this cycle
    visited,         \* history: countries whose pass has begun in this cycle
    recorded,        \* history: titles for which an add_record has completed
    clean,           \* history: the ledger held no "failed" entry when this
                     \* process started
    stops            \* history: processes that ended inside an iteration

vars == <<store_file, posted_titles, status_log, retry_queue, pc, country,
          articles, batch, kept, examined, events, posts,
          delivered, retried, drains, drained, visited, recorded, clean,
          stops>>

Startup == <<[ev |-> "startup", title |-> <<>>, ok |-> TRUE, rc |-> 0]>>

NoFailedEntry(log) ==
    \A k \in DOMAIN log : Get(log[k], "state", "") # "failed"

Count(evs, kind, t) ==
    Cardinality({i \in 1..Len(evs) : evs[i].ev = kind /\ evs[i].title = t})

CountOk(evs, kind, t) ==
    Cardinality({i \in 1..Len(evs) :
                    evs[i].ev = kind /\ evs[i].title = t /\ evs[i].ok})

\* history bookkeeping of a step that emitted evs
Account(evs) ==
    /\ events' = evs
    /\ posts' = [t \in Titles |-> posts[t] + Count(evs, "post", t)]
    /\ delivered' = [t \in Titles |-> delivered[t] + CountOk(evs, "post", t)]
    /\ recorded' = recorded \cup
          {evs[i].title : i \in {j \in DOMAIN evs :
                                   evs[j].ev = "record" /\ evs[j].ok}}
    /\ clean' = clean
    /\ stops' = stops + (IF Len(evs) > 1 /\ evs[Len(evs)].ev = "interrupt"
                         THEN 1 ELSE 0)

RECURSIVE SumPosts(_)
SumPosts(ts) ==
    IF ts = {} THEN 0
    ELSE LET t == CHOOSE x \in ts : TRUE
         IN  posts[t] + SumPosts(ts \ {t})

\* the model stops sending when a further call could take the channel posts
\* of the whole run above cap; a call that raises before it posts (a
\* replayed record) uses up nothing
BudgetOf(article, cap) ==
    IF Has(article, "title")
    THEN SumPosts(Titles) + SendAttempts <= cap
    ELSE TRUE

Budget(article) == BudgetOf(article, MaxPosts)

Init ==
    /\ store_file = <<>>
    /\ posted_titles = ArticleStore_load(store_file)
    /\ status_log \in InitialLedgers
    /\ retry_queue = _load_retry_queue(status_log)
    /\ pc = "fetch"
    /\ country = 1
    /\ articles = <<>>
    /\ batch = <<>>
    /\ kept = 0
    /\ examined = 0
    /\ events = Startup
    /\ posts = [t \in Titles |-> 0]
    /\ delivered = [t \in Titles |-> 0]
    /\ retried = {}
    /\ drains = 0
    /\ drained = 0
    /\ visited = {}
    /\ recorded = {}
    /\ clean = NoFailedEntry(status_log)
    /\ stops = 0

\* the process is stopped (between two steps, or inside one: pc "stopped")
\* and started again: NewsSystem.__init__
Restart ==
    /\ events # Startup
    /\ ~LoadRaises(status_log)
    /\ posted_titles' = ArticleStore_load(store_file)
    /\ retry_queue' = _load_retry_queue(status_log)
    /\ pc' = "fetch"
    /\ country' = 1
    /\ articles' = <<>>
    /\ batch' = <<>>
    /\ kept' = 0
    /\ examined' = 0
    /\ events' = Startup
    /\ drains' = 0
    /\ drained' = 0
    /\ visited' = {}
    /\ clean' = NoFailedEntry(status_log)
    /\ UNCHANGED <<store_file, status_log, posts, delivered, retried,
                   recorded, stops>>

\* the loop over RSS_SOURCES moves on, to the 30 minute sleep after the
\* last country
NextCountry ==
    /\ articles' = <<>>
    /\ batch' = <<>>
    /\ kept' = 0
    /\ IF country < NumCountries
       THEN country' = country + 1 /\ pc' = "fetch"
       ELSE country' = 1 /\ pc' = "sleep"

\* mutation: the exception leaves processing_cycle, and the cycle with it
ExceptCountry_abort ==
    /\ articles' = <<>>
    /\ batch' = <<>>
    /\ kept' = 0
    /\ country' = 1
    /\ pc' = "sleep"

\* the except clause of processing_cycle: the for loop goes on with the next
\* country
ExceptCountry == NextCountry

\* fetch_rss_articles on one of the feeds FS, then entry into
\* process_retries
FetchFrom(FS) ==
    /\ pc = "fetch"
    /\ \E feed \in FS : articles' = fetch_rss_articles(feed)
    /\ batch' = TakeBatch(retry_queue)
    /\ kept' = 0
    /\ examined' = 0
    /\ pc' = "country"
    /\ drains' = drains + 1
    /\ visited' = visited \cup {country}
    /\ Account(<<>>)
    /\ UNCHANGED <<store_file, posted_titles, status_log, retry_queue, country,
                   retried, drained>>

Fetch == FetchFrom(Feeds)

\* one iteration of the loop of process_retries, the environment answering
\* with one of Outs
RetryStepBounded(Outs, cap) ==
    /\ pc = "country"
    /\ batch # <<>>
    /\ examined' = examined + 1
    /\ drained' = drained + 1
    /\ UNCHANGED <<drains, visited>>
    /\ LET a  == SetDefault(Head(batch), "retry_count", 0)
           Q1 == ReplaceAt(retry_queue, kept + 1, a)
           e0 == <<Ev("examine", a, FALSE)>>
       IN  IF Exhausted(a)
           THEN \* the warning reads article['title'] before the removal: an
                \* element without that key raises KeyError and stays queued
                IF ~Has(a, "title")
                THEN /\ retry_queue' = Q1
                     /\ Account(Append(e0, Ev("raise", a, FALSE)))
                     /\ ExceptCountry
                     /\ retried' = retried
                     /\ UNCHANGED <<store_file, posted_titles, status_log>>
                ELSE /\ retry_queue' = RemoveFirst(Q1, a)
                     /\ batch' = Tail(batch)
                     /\ Account(Append(e0, Ev("drop", a, FALSE)))
                     /\ retried' = retried
                     /\ UNCHANGED <<store_file, posted_titles, status_log, pc,
                                    country, articles, kept>>
           ELSE \E out \in Outs :
                BudgetOf(a, cap) /\
                LET r  == send_article([log |-> status_log, queue |-> Q1,
                                        ev |-> e0],
                                       a, Get(a, "country", Unknown), out)
                    Q2 == ReplaceAt(r.S.queue, kept + 1, r.art)
                IN  /\ status_log' = r.S.log
                    /\ retried' = retried \cup
                          {t \in Titles : Count(r.S.ev, "post", t) > 0}
                    /\ IF r.raised
                       THEN /\ retry_queue' = Q2
                            /\ Account(r.S.ev)
                            /\ ExceptCountry
                            /\ UNCHANGED <<store_file, posted_titles>>
                       ELSE IF SendSucceeded(r)
                       THEN LET rec == add_record(posted_titles, store_file,
                                                  r.art.title, out.store)
                                ev1 == Append(r.S.ev, Ev("record", r.art,
                                                         ~rec.raised))
                            IN  /\ retry_queue' = RemoveFirst(Q2, r.art)
                                /\ posted_titles' = rec.titles
                                /\ store_file' = rec.file
                                /\ IF rec.raised
                                   THEN /\ Account(Append(ev1,
                                              Ev("raise", r.art, FALSE)))
                                        /\ ExceptCountry
                                   ELSE /\ Account(ev1)
                                        /\ batch' = Tail(batch)
                                        /\ UNCHANGED <<pc, country, articles,
                                                       kept>>
                       ELSE /\ retry_queue' = Q2
                            /\ batch' = Tail(batch)
                            /\ kept' = kept + 1
                            /\ Account(r.S.ev)
                            /\ UNCHANGED <<store_file, posted_titles, pc,
                                           country, articles>>

\* one iteration of the article loop of processing_cycle, the environment
\* answering with one of Outs
ProcessArticleBounded(Outs, cap) ==
    /\ pc = "country"
    /\ batch = <<>>
    /\ articles # <<>>
    /\ LET art == Head(articles)
       IN  IF AlreadyPosted(art.title, posted_titles)
           THEN /\ articles' = Tail(articles)
                /\ Account(<<Ev("skip", art, TRUE)>>)
                /\ UNCHANGED <<store_file, posted_titles, status_log,
                               retry_queue, pc, country, batch, kept>>
           ELSE \E replies \in RepliesFor(art.title), out \in Outs :
                BudgetOf(art, cap) /\
                LET tr == translate_text(art.title, replies)
                    a  == Put(Put(art, "translated", tr.text),
                              "country", RSS_SOURCES[country])
                    r  == send_article([log |-> status_log,
                                        queue |-> retry_queue,
                                        ev |-> TranslateEvents(art, replies,
                                                               tr.calls)],
                                       a, RSS_SOURCES[country], out)
                IN  /\ status_log' = r.S.log
                    /\ retry_queue' = r.S.queue
                    /\ IF r.raised
                       THEN /\ Account(r.S.ev)
                            /\ ExceptCountry
                            /\ UNCHANGED <<store_file, posted_titles>>
                       ELSE IF SendSucceeded(r)
                       THEN LET rec == add_record(posted_titles, store_file,
                                                  a.title, out.store)
                                ev1 == Append(r.S.ev, Ev("record", r.art,
                                                         ~rec.raised))
                            IN  /\ posted_titles' = rec.titles
                                /\ store_file' = rec.file
                                /\ IF rec.raised
                                   THEN /\ Account(Append(ev1,
                                              Ev("raise", r.art, FALSE)))
                                        /\ ExceptCountry
                                   ELSE /\ Account(ev1)
                                        /\ articles' = Tail(articles)
                                        /\ UNCHANGED <<pc, country, batch,
                                                       kept>>
                       ELSE /\ Account(r.S.ev)
                            /\ articles' = Tail(articles)
                            /\ UNCHANGED <<store_file, posted_titles, pc,
                                           country, batch, kept>>
    /\ examined' = 0
    /\ UNCHANGED <<retried, drains, drained, visited>>

\* both loops of this country are through
EndCountry ==
    /\ pc = "country"
    /\ batch = <<>>
    /\ articles = <<>>
    /\ NextCountry
    /\ Account(<<>>)
    /\ examined' = 0
    /\ UNCHANGED <<store_file, posted_titles, status_log, retry_queue,
                   retried, drains, drained, visited>>

\* main_loop: the 30 minute sleep is over
NextCycle ==
    /\ pc = "sleep"
    /\ pc' = "fetch"
    /\ drains' = 0
    /\ drained' = 0
    /\ visited' = {}
    /\ Account(<<>>)
    /\ UNCHANGED <<store_file, posted_titles, status_log, retry_queue, country,
                   articles, batch, kept, examined, retried>>

\* the process ends inside a step that had emitted evs: its memory is gone,
\* what the channel received stays
StopProcess(evs) ==
    /\ pc' = "stopped"
    /\ posted_titles' = {}
    /\ retry_queue' = <<>>
    /\ country' = 1
    /\ articles' = <<>>
    /\ batch' = <<>>
    /\ kept' = 0
    /\ examined' = 0
    /\ drains' = 0
    /\ drained' = 0
    /\ visited' = {}
    /\ Account(Append(evs, [ev |-> "interrupt", title |-> <<>>, ok |-> TRUE,
                           rc |-> 0]))

\* main_loop: a KeyboardInterrupt, wherever it arrives, passes the
\* `except Exception` clauses and ends the loop; the process and its memory
\* are gone, the files stay
Interrupt ==
    /\ pc \in {"fetch", "country", "sleep"}
    /\ StopProcess(<<>>)
    /\ UNCHANGED <<store_file, status_log, retried>>

\* what one iteration of the loop of process_retries, run to its end with the
\* environment answering out, emits and leaves in the two files
RetryIteration(out) ==
    LET a  == SetDefault(Head(batch), "retry_count", 0)
        Q1 == ReplaceAt(retry_queue, kept + 1, a)
        e0 == <<Ev("examine", a, FALSE)>>
    IN  IF Exhausted(a)
        THEN [ev   |-> Append(e0, Ev(IF Has(a, "title") THEN "drop"
                                     ELSE "raise", a, FALSE)),
              log  |-> status_log, file |-> store_file]
        ELSE LET r == send_article([log |-> status_log, queue |-> Q1,
                                    ev |-> e0],
                                   a, Get(a, "country", Unknown), out)
             IN  IF r.raised
                 THEN [ev |-> r.S.ev, log |-> r.S.log, file |-> store_file]
                 ELSE IF SendSucceeded(r)
                 THEN LET rec == add_record(posted_titles, store_file,
                                            r.art.title, out.store)
                          ev1 == Append(r.S.ev,
                                        Ev("record", r.art, ~rec.raised))
                      IN  [ev   |-> IF rec.raised
                                    THEN Append(ev1, Ev("raise", r.art,
                                                        FALSE))
                                    ELSE ev1,
                           log  |-> r.S.log, file |-> rec.file]
                 ELSE [ev |-> r.S.ev, log |-> r.S.log, file |-> store_file]

\* the same for one iteration of the article loop of processing_cycle
ArticleIteration(replies, out) ==
    LET art == Head(articles)
    IN  IF AlreadyPosted(art.title, posted_titles)
        THEN [ev |-> <<Ev("skip", art, TRUE)>>, log |-> status_log,
              file |-> store_file]
        ELSE LET tr == translate_text(art.title, replies)
                 a  == Put(Put(art, "translated", tr.text),
                           "country", RSS_SOURCES[country])
                 r  == send_article([log |-> status_log,
                                     queue |-> retry_queue,
                                     ev |-> TranslateEvents(art, replies,
                                                            tr.calls)],
                                    a, RSS_SOURCES[country], out)
             IN  IF r.raised
                 THEN [ev |-> r.S.ev, log |-> r.S.log, file |-> store_file]
                 ELSE IF SendSucceeded(r)
                 THEN LET rec == add_record(posted_titles, store_file,
                                            a.title, out.store)
                          ev1 == Append(r.S.ev,
                                        Ev("record", r.art, ~rec.raised))
                      IN  [ev   |-> IF rec.raised
                                    THEN Append(ev1, Ev("raise", r.art,
                                                        FALSE))
                                    ELSE ev1,
                           log  |-> r.S.log, file |-> rec.file]
                 ELSE [ev |-> r.S.ev, log |-> r.S.log, file |-> store_file]

\* the process ends inside the iteration it, after the first j of its events:
\* a ledger entry or a title line is in its file when its append is among
\* them, the posts among them have reached the channel
StopInside(it, j) ==
    LET done == SubSeq(it.ev, 1, j)
    IN  /\ StopProcess(done)
        /\ status_log' = (IF \E i \in 1..j : done[i].ev = "log"
                          THEN it.log ELSE status_log)
        /\ store_file' = (IF \E i \in 1..j : done[i].ev = "record"
                                                /\ done[i].ok
                          THEN it.file ELSE store_file)

\* a KeyboardInterrupt or a kill arrives inside an iteration of the drain or
\* of the article loop: in one of the waits of translate_text, send_article
\* or _notify_admin, in a file append, or in the sleep that ends the
\* iteration or follows an exception (MaxStops processes may end this way)
InterruptedStepWith(Outs) ==
    /\ pc = "country"
    /\ stops < MaxStops
    /\ IF batch # <<>>
       THEN /\ IF Exhausted(SetDefault(Head(batch), "retry_count", 0))
               THEN TRUE ELSE Budget(Head(batch))
            /\ \E out \in Outs :
                  LET it == RetryIteration(out)
                  IN  \E j \in 1..Len(it.ev) :
                        /\ StopInside(it, j)
                        /\ retried' = retried \cup
                              {it.ev[i].title :
                                 i \in {k \in 1..j : it.ev[k].ev = "post"}}
       ELSE /\ articles # <<>>
            /\ IF AlreadyPosted(Head(articles).title, posted_titles)
               THEN TRUE ELSE Budget(Head(articles))
            /\ \E replies \in RepliesFor(Head(articles).title),
                  out \in Outs :
                  LET it == ArticleIteration(replies, out)
                  IN  \E j \in 1..Len(it.ev) :
                        /\ StopInside(it, j)
                        /\ retried' = retried

RetryStepWith(Outs) == RetryStepBounded(Outs, MaxPosts)

ProcessArticleWith(Outs) == ProcessArticleBounded(Outs, MaxPosts)

RetryStep == RetryStepWith(Outcomes)

ProcessArticle == ProcessArticleWith(Outcomes)

RetryStepIO == RetryStepWith(Outcomes \cup FaultOutcomes)

ProcessArticleIO == ProcessArticleWith(Outcomes \cup FaultOutcomes)

RetryStepMain ==
    RetryStepWith(Outcomes \cup FaultOutcomes \cup StoreFaultOutcomes)

ProcessArticleMain ==
    ProcessArticleWith(Outcomes \cup FaultOutcomes \cup StoreFaultOutcomes)

InterruptedStep == InterruptedStepWith(Outcomes)

InterruptedStepIO == InterruptedStepWith(Outcomes \cup FaultOutcomes)

InterruptedStepMain ==
    InterruptedStepWith(Outcomes \cup FaultOutcomes \cup StoreFaultOutcomes)

\* the files can always be written
Next ==
    \/ Restart
    \/ Fetch
    \/ RetryStep
    \/ ProcessArticle
    \/ InterruptedStep
    \/ EndCountry
    \/ NextCycle

Spec == Init /\ [][Next]_vars

\* an append to the ledger file may raise
NextIO ==
    \/ Restart
    \/ Fetch
    \/ RetryStepIO
    \/ ProcessArticleIO
    \/ InterruptedStepIO
    \/ EndCountry
    \/ NextCycle

SpecIO == Init /\ [][NextIO]_vars

\* One run of main_loop, from the start of the process to its end.
\* NewsSystem() is built outside the try of the loop, so an exception of
\* the startup load ends the process; the ledger file found may end in a
\* torn line, and an append to the ledger file or to the title file may
\* raise.
InitMain ==
    /\ store_file = <<>>
    /\ status_log \in InitialLedgers \cup TornLedgers
    /\ IF LoadRaises(status_log)
       THEN /\ pc = "crashed"
            /\ posted_titles = {}
            /\ retry_queue = <<>>
       ELSE /\ pc = "fetch"
            /\ posted_titles = ArticleStore_load(store_file)
            /\ retry_queue = _load_retry_queue(status_log)
    /\ country = 1
    /\ articles = <<>>
    /\ batch = <<>>
    /\ kept = 0
    /\ examined = 0
    /\ events = Startup
    /\ posts = [t \in Titles |-> 0]
    /\ delivered = [t \in Titles |-> 0]
    /\ retried = {}
    /\ drains = 0
    /\ drained = 0
    /\ visited = {}
    /\ recorded = {}
    /\ clean = NoFailedEntry(status_log)
    /\ stops = 0

NextMain ==
    \/ Fetch
    \/ RetryStepMain
    \/ ProcessArticleMain
    \/ InterruptedStepMain
    \/ EndCountry
    \/ NextCycle
    \/ Interrupt

SpecMain == InitMain /\ [][NextMain]_vars

\* One process that finds an empty ledger and runs on, the files writable.
\* A feed holds up to QueueFeedLen entries, one more than fetch_rss_articles
\* keeps, all with a title that needs no translation, and the channel takes
\* QueuePosts posts, enough for 6 sends to fail.
QueueFeeds ==
    {[ok |-> TRUE, entries |-> [i \in 1..k |-> e]] :
        k \in 0..QueueFeedLen,
        e \in {x \in RawEntries : is_chinese(Strip(x.title))}}

InitQueue == Init /\ status_log = <<>>

FetchQueue == FetchFrom(QueueFeeds)

RetryStepQueue == RetryStepBounded(Outcomes, QueuePosts)

ProcessArticleQueue == ProcessArticleBounded(Outcomes, QueuePosts)

NextQueue ==
    \/ FetchQueue
    \/ RetryStepQueue
    \/ ProcessArticleQueue
    \/ EndCountry
    \/ NextCycle

SpecQueue == InitQueue /\ [][NextQueue]_vars

\* The title store by itself: add_record on the titles the callers can hand
\* it (entry.title.strip(): no blank at either end, possibly empty, possibly
\* with a blank or a line break inside), and the load of a new process.
StoreTitles ==
    {<<>>, <<"a">>, <<"b">>, <<"a", " ", "b">>, <<"a", "\n", "b">>}

InitStore ==
    /\ store_file = <<>>
    /\ posted_titles = ArticleStore_load(store_file)
    /\ status_log = <<>>
    /\ retry_queue = <<>>
    /\ pc = "store"
    /\ country = 1
    /\ articles = <<>>
    /\ batch = <<>>
    /\ kept = 0
    /\ examined = 0
    /\ events = Startup
    /\ posts = [t \in Titles |-> 0]
    /\ delivered = [t \in Titles |-> 0]
    /\ retried = {}
    /\ drains = 0
    /\ drained = 0
    /\ visited = {}
    /\ recorded = {}
    /\ clean = NoFailedEntry(status_log)
    /\ stops = 0

AddRecord ==
    \E t \in StoreTitles :
        /\ pc = "store"
        /\ Len(store_file) + Len(t) + 1 <= MaxStoreLen
        /\ LET rec == add_record(posted_titles, store_file, t, TRUE)
           IN  /\ posted_titles' = rec.titles
               /\ store_file' = rec.file
        /\ recorded' = recorded \cup {t}
        /\ events' = <<[ev |-> "record", title |-> t, ok |-> TRUE, rc |-> 0]>>
        /\ UNCHANGED <<status_log, retry_queue, pc, country, articles, batch,
                       kept, examined, posts, delivered, retried, drains,
                       drained, visited, clean, stops>>

\* ArticleStore.__init__ of a new process
Reload ==
    /\ pc = "store"
    /\ events # Startup
    /\ posted_titles' = ArticleStore_load(store_file)
    /\ events' = Startup
    /\ UNCHANGED <<store_file, status_log, retry_queue, pc, country, articles,
                   batch, kept, examined, posts, delivered, retried, drains,
                   drained, visited, recorded, clean, stops>>

NextStore ==
    \/ AddRecord
    \/ Reload

SpecStore == InitStore /\ [][NextStore]_vars

\* ------------------------------------------------------------------ claims

\* C1: a title that is in posted_titles is never posted to the channel
\* again, and over the whole execution (restarts included) the channel
\* accepts at most one post per title.  A ledger append that raises after
\* an accepted post makes send_article post the same article again, and a
\* process that ends between an accepted post and add_record leaves the
\* title unrecorded for the next process to post again.
C1_AtMostOnceDelivery ==
    [][\A t \in Titles :
          /\ Count(events', "post", t) > 0 =>
                t \notin posted_titles /\ delivered[t] = 0
          /\ delivered'[t] <= 1]_vars

\* C2: no title is at once in posted_titles and carried by an article of
\* the retry queue.
C2_StoreQueueDisjoint ==
    \A i \in DOMAIN retry_queue : TitleOf(retry_queue[i]) \notin posted_titles

\* C3: a title enters posted_titles only through an add_record that directly
\* follows a send_article call for that title which returned success and
\* appended a "success" ledger entry for it; every title in posted_titles
\* has a "success" entry in the ledger.
C3_RecordOnlyAfterSuccess ==
    [][events' # Startup =>
        /\ \A t \in posted_titles' \ posted_titles :
              \E i \in DOMAIN events' :
                  events'[i].ev = "record" /\ events'[i].title = t
        /\ \A i \in DOMAIN events' :
              events'[i].ev = "record" =>
                 /\ i > 1
                 /\ events'[i - 1].ev = "ret"
                 /\ events'[i - 1].ok
                 /\ events'[i - 1].title = events'[i].title
                 /\ \E j \in 1..(i - 1) :
                       /\ events'[j].ev = "log"
                       /\ events'[j].ok
                       /\ events'[j].title = events'[i].title
                 /\ Len(status_log') = Len(status_log) + 1
                 /\ status_log'[Len(status_log')].state = "success"
                 /\ status_log'[Len(status_log')].original_title
                       = events'[i].title
        /\ \A t \in posted_titles' :
              \E k \in DOMAIN status_log' :
                  /\ status_log'[k].state = "success"
                  /\ status_log'[k].original_title = t]_vars

\* a step recorded a title, and the queue holds an article whose failed send
\* recorded nothing
C3_Witness ==
    /\ \E i \in DOMAIN events :
          events[i].ev = "record" /\ events[i].title \in posted_titles
    /\ \E i \in DOMAIN retry_queue :
          /\ Has(retry_queue[i], "title")
          /\ retry_queue[i].title \notin posted_titles

\* C4: the channel post attempts made for one title stay within the
\* per-article cap: an article enters send_article with a retry_count below
\* MaxRetryCount and gets at most SendAttempts attempts in that call.
AttemptCap == (MaxRetryCount - 1) + SendAttempts

C4_BoundedAttempts == \A t \in Titles : posts[t] <= AttemptCap

\* C5: an article leaves the retry queue as abandoned only after the drain
\* has attempted it again.
C5_RetriedBeforeAbandoned ==
    [][\A i \in DOMAIN events' :
          events'[i].ev = "drop" => events'[i].title \in retried']_vars

\* C6: right after startup, every "failed" ledger entry for a title X has an
\* article in the retry queue whose title is X and whose retry_count is the
\* entry's retries value.
C6_ReplayKeepsTitleAndCount ==
    events = Startup =>
        \A k \in DOMAIN status_log :
            status_log[k].state = "failed" =>
                \E i \in DOMAIN retry_queue :
                    /\ Has(retry_queue[i], "title")
                    /\ retry_queue[i].title = status_log[k].original_title
                    /\ Has(retry_queue[i], "retry_count")
                    /\ retry_queue[i].retry_count = status_log[k].retries

\* C7: when the pass over a country ends and the cycle goes on, no fetched
\* item whose title is not in posted_titles has been left without a
\* send_article call.
C7_EveryNewItemSent ==
    [][(pc = "country" /\ pc' \in {"fetch", "sleep"}
                        /\ events' # Startup) =>
          \A i \in DOMAIN articles :
              AlreadyPosted(articles[i].title, posted_titles)]_vars

NumEv(e, kind) == Cardinality({i \in DOMAIN e : e[i].ev = kind})

FirstEv(e, kind) == CHOOSE i \in DOMAIN e : e[i].ev = kind

\* C8: a send_article call in which every channel post fails, and which the
\* end of the process does not cut short, makes exactly
\* 3 posts, leaves retry_count 3 higher, appends exactly one ledger entry,
\* of state "failed", appends the article to the retry queue exactly once
\* and returns failure.
C8_AllFailSend ==
    [][LET e == events'
       IN  (/\ NumEv(e, "call") > 0
            /\ NumEv(e, "raise") = 0
            /\ NumEv(e, "interrupt") = 0
            /\ \A i \in DOMAIN e : e[i].ev = "post" => ~e[i].ok) =>
           LET rc0 == e[FirstEv(e, "call")].rc
               n   == Len(status_log)
               m   == Len(retry_queue)
           IN  /\ NumEv(e, "call") = 1
               /\ NumEv(e, "post") = 3
               /\ NumEv(e, "log") = 1
               /\ ~e[FirstEv(e, "log")].ok
               /\ NumEv(e, "enqueue") = 1
               /\ NumEv(e, "ret") = 1
               /\ ~e[FirstEv(e, "ret")].ok
               /\ e[FirstEv(e, "ret")].rc = rc0 + 3
               /\ Len(status_log') = n + 1
               /\ SubSeq(status_log', 1, n) = status_log
               /\ status_log'[n + 1].state = "failed"
               /\ status_log'[n + 1].retries = rc0 + 3
               /\ Len(retry_queue') = m + 1
               /\ TitleOf(retry_queue'[m + 1]) = e[FirstEv(e, "call")].title
               /\ retry_queue'[m + 1].retry_count = rc0 + 3]_vars

\* the last step was a send_article call whose three posts all failed
C8_Witness ==
    /\ NumEv(events, "post") = 3
    /\ \A i \in DOMAIN events : events[i].ev = "post" => ~events[i].ok
    /\ NumEv(events, "ret") = 1
    /\ retry_queue # <<>>
    /\ status_log # <<>>
    /\ status_log[Len(status_log)].state = "failed"

\* C9: the ledger only grows at its end, by the one entry of each append of
\* _log_status that went through; a send_article call that returned has
\* made exactly one such append and no call makes two, the entry's state is
\* "success" iff the call returned success, and its retries value is the
\* article's retry_count, the count at the call plus the failed attempts of
\* the call (posts that failed, appends that raised).  Only a call in which
\* the process ended can have appended its entry without returning.
C9_OneEntryPerReturnedCall ==
    [][LET e == events'
           n == Len(status_log)
       IN  /\ Len(status_log') >= n
           /\ SubSeq(status_log', 1, n) = status_log
           /\ Len(status_log') - n = NumEv(e, "log")
           /\ NumEv(e, "log") <= 1
           /\ NumEv(e, "ret") <= NumEv(e, "log")
           /\ NumEv(e, "interrupt") = 0 => NumEv(e, "ret") = NumEv(e, "log")
           /\ \A i \in DOMAIN e :
                 e[i].ev = "ret" =>
                    LET entry == status_log'[n + 1]
                        fails == Cardinality({j \in DOMAIN e :
                                     \/ e[j].ev = "post" /\ ~e[j].ok
                                     \/ e[j].ev = "iofail"})
                    IN  /\ entry.state \in {"success", "failed"}
                        /\ (entry.state = "success") <=> e[i].ok
                        /\ entry.original_title = e[i].title
                        /\ entry.retries = e[i].rc
                        /\ e[i].rc = e[FirstEv(e, "call")].rc + fails]_vars

\* the last step was a call that succeeded at its third post: one entry,
\* "success", retries 2
C9_Witness ==
    /\ \E i \in DOMAIN events :
          events[i].ev = "ret" /\ events[i].ok /\ events[i].rc = 2
    /\ NumEv(events, "log") = 1
    /\ status_log # <<>>
    /\ status_log[Len(status_log)].state = "success"
    /\ status_log[Len(status_log)].retries = 2

\* C10: one drain examines at most 5 articles, the first 5 of the queue as
\* it was when the drain began, in order; the iteration that examines an
\* article whose retry_count is 3 or more makes no channel post, no ledger
\* entry and no admin alert, and removes the article from the queue (unless
\* the process ends in it, and the queue with the process).
C10_DrainCapAndDrop ==
    [][/\ examined' + Len(batch') <= 5
       /\ (pc = "fetch" /\ pc' = "country") =>
             /\ batch' = SubSeq(retry_queue, 1, Len(batch'))
             /\ Len(batch') = 5 \/ Len(batch') = Len(retry_queue)
       /\ \A i \in DOMAIN events' :
             events'[i].ev = "examine" =>
                /\ batch # <<>>
                /\ TitleOf(Head(batch)) = events'[i].title
                /\ pc' # "stopped" => examined' = examined + 1
                /\ events'[i].rc >= 3 =>
                      /\ status_log' = status_log
                      /\ posts' = posts
                      /\ NumEv(events', "post") = 0
                      /\ NumEv(events', "log") = 0
                      /\ NumEv(events', "alert") = 0
                      /\ pc' # "stopped" =>
                            /\ Len(events') = 2
                            /\ events'[2].ev = "drop"
                            /\ events'[2].title = events'[i].title
                            /\ Len(retry_queue') = Len(retry_queue) - 1
                            /\ retry_queue' =
                                  [j \in 1..(Len(retry_queue) - 1) |->
                                      IF j <= kept THEN retry_queue[j]
                                      ELSE retry_queue[j + 1]]]_vars

\* the drain has just dropped an article whose retry_count had reached 3
C10_Witness ==
    /\ Len(events) = 2
    /\ events[1].ev = "examine"
    /\ events[1].rc >= 3
    /\ events[2].ev = "drop"
    /\ \A i \in DOMAIN retry_queue :
          TitleOf(retry_queue[i]) # events[1].title
    /\ events[1].title \notin posted_titles

\* C11 (as claimed): within one polling cycle the drain runs once, and the
\* drains of the cycle process at most 5 queued articles in all.
C11_OneDrainPerCycle ==
    /\ drains <= 1
    /\ drained <= RetryBatch

\* C11 (amended): process_retries runs once in the pass of each country,
\* after that country's fetch, hence as many times per cycle as there are
\* countries; each run takes at most 5 articles, so that the articles the
\* drains of one cycle have processed or are about to process number at
\* most 5 per country visited (a process that has ended is in no cycle).
C11_OneDrainPerCountry ==
    /\ drains = (IF pc = "country" THEN country
                 ELSE IF pc = "fetch" THEN country - 1
                 ELSE IF pc = "sleep" THEN NumCountries
                 ELSE 0)
    /\ drains <= NumCountries
    /\ drained + Len(batch) <= RetryBatch * drains

\* the cycle is at its second drain or further, and each drain so far has
\* examined an article
C11_Witness ==
    /\ drains > 1
    /\ drained >= drains
    /\ pc = "country"

IsPrefix(a, b) == Len(a) <= Len(b) /\ SubSeq(b, 1, Len(a)) = a

\* C12: a step in which an exception leaves the drain or a send_article
\* call of one country's pass ends in the except clause of
\* processing_cycle: unless the process ends there, the cycle goes on with
\* the next country of RSS_SOURCES (with the sleep after the last one), and
\* what the ledger, the title file, posted_titles and the retry queue held
\* before the step is still there; a cycle reaches its sleep only when the
\* pass of every country has begun.
C12_CountryExceptionContained ==
    [][/\ NumEv(events', "raise") > 0 =>
             /\ pc = "country"
             /\ IsPrefix(status_log, status_log')
             /\ IsPrefix(store_file, store_file')
             /\ pc' # "stopped" =>
                   /\ pc' = (IF country < NumCountries THEN "fetch"
                             ELSE "sleep")
                   /\ country' = (IF country < NumCountries
                                  THEN country + 1 ELSE 1)
                   /\ visited' = visited
                   /\ posted_titles \subseteq posted_titles'
                   /\ Len(retry_queue') >= Len(retry_queue)
                   /\ \A i \in DOMAIN retry_queue :
                         TitleOf(retry_queue'[i]) = TitleOf(retry_queue[i])
       /\ pc' = "sleep" => visited' = 1..NumCountries]_vars

\* an exception has just ended the pass of a country that is not the last,
\* with a ledger and a retry queue that are not empty, and the next
\* country is about to be fetched
C12_Witness ==
    /\ NumEv(events, "raise") > 0
    /\ pc = "fetch"
    /\ country > 1
    /\ status_log # <<>>
    /\ retry_queue # <<>>

\* C13: the process started by main_loop ends only on a KeyboardInterrupt,
\* whatever the title file and the ledger file hold at startup and whatever
\* is raised during a cycle.
C13_ExitOnlyOnInterrupt ==
    pc \notin {"fetch", "country", "sleep"} =>
        /\ pc = "stopped"
        /\ events[Len(events)].ev = "interrupt"

\* C14: an append to the ledger file or to the title file that raises ends
\* the send_article or add_record operation it belongs to: the exception
\* goes to the handler next, and the call makes no further channel post.
C14_WriteFailureEndsOperation ==
    [][\A i \in DOMAIN events' :
          (\/ events'[i].ev = "iofail"
           \/ events'[i].ev = "record" /\ ~events'[i].ok) =>
             /\ i < Len(events')
             /\ events'[i + 1].ev = "raise"
             /\ \A j \in DOMAIN events' :
                   j > i => events'[j].ev # "post"]_vars

\* C15: a step dispatches one admin alert per send_article call that
\* returned failure and per "failed" entry it appended to the ledger (a
\* step in which the process ended may have appended the entry without the
\* alert, never the reverse); the alert comes after the entry and the
\* enqueue, and whether it got through or not the call returns failure, the
\* article is in the retry queue, the entry is in the ledger and the title
\* store is as it was.
C15_OneAlertPerFailedSend ==
    [][LET e == events'
           n == Len(status_log)
           failedRet == Cardinality({i \in DOMAIN e :
                                        e[i].ev = "ret" /\ ~e[i].ok})
           failedNew == Cardinality({k \in (n + 1)..Len(status_log') :
                                        status_log'[k].state = "failed"})
       IN  /\ failedRet <= NumEv(e, "alert")
           /\ NumEv(e, "alert") <= failedNew
           /\ NumEv(e, "interrupt") = 0 =>
                 failedRet = NumEv(e, "alert") /\ NumEv(e, "alert") = failedNew
           /\ \A i \in DOMAIN e :
                 e[i].ev = "alert" =>
                    /\ i > 2
                    /\ e[i - 2].ev = "log" /\ ~e[i - 2].ok
                    /\ e[i - 1].ev = "enqueue"
                    /\ i < Len(e)
                    /\ \/ e[i + 1].ev = "interrupt"
                       \/ /\ e[i + 1].ev = "ret" /\ ~e[i + 1].ok
                          /\ e[i + 1].title = e[i].title
                    /\ Len(status_log') = n + 1
                    /\ status_log'[n + 1].original_title = e[i].title
                    /\ store_file' = store_file
                    /\ pc' # "stopped" =>
                          /\ Len(retry_queue') = Len(retry_queue) + 1
                          /\ TitleOf(retry_queue'[Len(retry_queue')])
                                = e[i].title
                          /\ posted_titles' = posted_titles]_vars

\* the last step was a failed send whose admin alert did not get through:
\* the call has returned failure, entry and article are where they belong
C15_Witness ==
    /\ \E i \in DOMAIN events :
          /\ events[i].ev = "alert" /\ ~events[i].ok
          /\ i < Len(events)
          /\ events[i + 1].ev = "ret" /\ ~events[i + 1].ok
    /\ status_log # <<>>
    /\ status_log[Len(status_log)].state = "failed"
    /\ retry_queue # <<>>
    /\ Has(retry_queue[Len(retry_queue)], "title")

NoLineTwice(lines) ==
    \A i, j \in DOMAIN lines : lines[i] = lines[j] => i = j

\* C16: a title for which add_record has completed is in posted_titles in
\* every later state, also in the set a new process loads; an add_record
\* for a title that is in posted_titles changes neither the set nor the
\* file, and the file holds one line per distinct title.
C16_TitleStoreDurable ==
    [][/\ recorded' \subseteq posted_titles'
       /\ \A i \in DOMAIN events' :
             (events'[i].ev = "record" /\ events'[i].title \in posted_titles)
                => posted_titles' = posted_titles /\ store_file' = store_file
       /\ NoLineTwice(Lines(store_file', <<>>))]_vars

\* a CJK ideograph among the first 10 characters
CJKInFirstTen(t) == \E i \in 1..Len(t) : i <= 10 /\ t[i] \in CJK

\* C17: in a step of the article loop that reaches the translation, the
\* provider is called at most 3 times, not at all for a title with a CJK
\* ideograph among its first 10 characters (which goes out unchanged), and
\* otherwise until the first call that succeeds, whose result is the
\* translation; after 3 failed calls the translation is the title with the
\* failure marker appended.  In every case send_article is then called for
\* the article, unless the process has ended in the translation.
C17_TranslateNeverBlocks ==
    [][LET e == events'
           n == NumEv(e, "tcall")
       IN  (e # <<>> /\ e[1].ev \in {"tcall", "call"}) =>
              LET t == e[1].title
                  translated == status_log'[Len(status_log')].translated_title
              IN  /\ n <= 3
                  /\ \A i \in 1..n : e[i].ev = "tcall" /\ e[i].title = t
                  /\ Len(e) > n
                  /\ \A i \in 1..(n - 1) : ~e[i].ok
                  /\ CJKInFirstTen(t) => n = 0
                  /\ ~CJKInFirstTen(t) => n >= 1
                  /\ IF e[n + 1].ev = "interrupt"
                     THEN NumEv(e, "call") = 0
                     ELSE /\ e[n + 1].ev = "call" /\ e[n + 1].title = t
                          /\ NumEv(e, "call") = 1
                          /\ ~CJKInFirstTen(t) => e[n].ok \/ n = 3
                  /\ NumEv(e, "ret") = 1 =>
                        /\ Len(status_log') = Len(status_log) + 1
                        /\ translated =
                              (IF CJKInFirstTen(t) THEN t
                               ELSE IF e[n].ok THEN ProviderText
                               ELSE t \o FailureMarker)]_vars

\* the last step translated a Latin title whose first ideograph is the
\* 11th character: the provider failed 3 times, and the article went out
\* with the failure marker
C17_Witness ==
    /\ NumEv(events, "tcall") = 3
    /\ \A i \in 1..3 : ~events[i].ok
    /\ ~CJKInFirstTen(events[1].title)
    /\ \E i \in 1..Len(events[1].title) : events[1].title[i] \in CJK
    /\ \E i \in DOMAIN events :
          events[i].ev = "post" /\ events[i].ok
    /\ status_log # <<>>
    /\ status_log[Len(status_log)].translated_title
          = events[1].title \o FailureMarker

IsFailed(entry) == entry.state = "failed"

\* C18: right after startup the retry queue is the sequence of the ledger's
\* "failed" entries, one element per entry and in ledger order, whether or
\* not a later "success" entry exists for the same title; "success"
\* entries add nothing, and without a ledger the queue is empty.
C18_ReplayEveryFailedEntry ==
    events = Startup =>
        /\ retry_queue = SelectSeq(status_log, IsFailed)
        /\ status_log = <<>> => retry_queue = <<>>

\* a process has just started on a ledger in which a "failed" entry is
\* followed by a "success" entry for the same title, and the failed entry
\* is in the retry queue
C18_Witness ==
    /\ events = Startup
    /\ \E i, j \in DOMAIN status_log :
          /\ i < j
          /\ status_log[i].state = "failed"
          /\ status_log[j].state = "success"
          /\ status_log[i].original_title = status_log[j].original_title
          /\ \E k \in DOMAIN retry_queue : retry_queue[k] = status_log[i]
          /\ Len(retry_queue) < Len(status_log)

\* C19: an article that a failed send_article call appends to the retry
\* queue has retry_count 3 or more when it is appended and as long as it is
\* queued; when the drain examines it, it is removed in that same step
\* (unless the process ends in it), with no send_article call and no
\* channel post, and its title is not recorded.
C19_QueuedArticlesAreExhausted ==
    [][LET e == events'
       IN  /\ \A i \in DOMAIN e : e[i].ev = "enqueue" => e[i].rc >= 3
           /\ \A k \in DOMAIN retry_queue' :
                 Has(retry_queue'[k], "title") =>
                    /\ Has(retry_queue'[k], "retry_count")
                    /\ retry_queue'[k].retry_count >= 3
           /\ \A i \in DOMAIN e :
                 (e[i].ev = "examine" /\ Has(Head(batch), "title")) =>
                    /\ NumEv(e, "call") = 0
                    /\ posts' = posts
                    /\ status_log' = status_log
                    /\ store_file' = store_file
                    /\ pc' # "stopped" =>
                          /\ Len(e) = 2
                          /\ e[2].ev = "drop"
                          /\ e[2].title = Head(batch).title
                          /\ Len(retry_queue') = Len(retry_queue) - 1
                          /\ posted_titles' = posted_titles]_vars

\* the drain has just removed an article of this run that three posts had
\* failed to deliver
C19_Witness ==
    /\ Len(events) = 2
    /\ events[1].ev = "examine"
    /\ events[1].rc = 3
    /\ events[2].ev = "drop"
    /\ events[1].title \in Titles
    /\ posts[events[1].title] >= 3
    /\ delivered[events[1].title] = 0

\* C20: in a process that found no "failed" entry in the ledger when it
\* started, the retry queue never holds more than 5 articles, and it is
\* empty when a process_retries invocation has ended.
C20_QueueBoundedAndDrained ==
    [][clean' =>
          /\ Len(retry_queue') <= 5
          /\ (/\ pc' = "country"
              /\ batch' = <<>>
              /\ pc = "fetch" \/ batch # <<>>) => retry_queue' = <<>>]_vars

\* in such a process a fetch of a feed of 6 entries has returned 5 items,
\* the sends of all 5 have failed, and the drain of the next country has
\* just ended by removing the last of the 5 queued articles
C20_Witness ==
    /\ clean
    /\ pc = "country"
    /\ batch = <<>>
    /\ retry_queue = <<>>
    /\ examined = 5
    /\ Len(events) = 2
    /\ events[2].ev = "drop"
    /\ \E t \in Titles : posts[t] = 5 * SendAttempts /\ delivered[t] = 0

====
